---------------------------- MODULE Spec2Model ----------------------------
(***************************************************************************)
(* The Timeline component of screenpipe-app-tauri/app/timeline/page.tsx:   *)
(* the live frame stream (EventSource handlers, the ordered frame store),  *)
(* the playback cursor moved by the wheel, the manual refresh, the range   *)
(* selection on the time axis and the AI panel with its streamed query.    *)
(*                                                                         *)
(* Spec runs the stream, the wheel and the refresh; SpecSelection the      *)
(* pointer handlers of the time axis; SpecQuery the AI panel, and          *)
(* SpecQueryFair adds that a request does not stall for ever.              *)
(*                                                                         *)
(* Every React state cell and ref the handlers touch is a variable.  One   *)
(* action is one handler invocation: the runtime is single-threaded, so a  *)
(* handler runs to completion and the state updates it queued are all      *)
(* applied before the next handler runs.                                   *)
(***************************************************************************)
EXTENDS Integers, Sequences, FiniteSets, TLC

(***************************************************************************)
(* Bounds of the model.                                                    *)
(***************************************************************************)
\* Millisecond instants the server's batches are stamped with: 1..MaxInstant.
MaxInstant == 2

\* Submissions handleAiSubmit accepts in one behaviour.
MaxRequests == 2

\* Chunks one completion stream delivers at most.
MaxChunks == 2

(***************************************************************************)
(* Values.                                                                 *)
(***************************************************************************)
\* A timestamp is TEXT (StreamTimeSeriesResponse.timestamp: string).  The
\* text <<ms, sub>> is the ISO-8601 string of the instant ms milliseconds
\* whose fraction digits beyond the millisecond are sub: <<1, 0>> and
\* <<1, 1>> are two different strings that `new Date(..).getTime()` maps to
\* the same number.
Timestamps == {<<ms, 0>> : ms \in 1..MaxInstant} \cup {<<1, 1>>}

\* A DeviceFrameResponse: the device and the metadata.timestamp of its batch
\* (frame, audio and the other metadata fields are opaque to the handlers).
DeviceFrame(d, t) == [device_id |-> d, timestamp |-> t]

\* The devices arrays a batch stamped t may carry.
DeviceLists(t) ==
    { <<>>, <<DeviceFrame("d1", t)>>, <<DeviceFrame("d2", t), DeviceFrame("d1", t)>> }

\* useState<DeviceFrameResponse | null>(null); `devices[0]` of an empty array
\* is undefined.
NullFrame == [is |-> "null"]
UndefinedFrame == [is |-> "undefined"]

\* event.data of one message event, as JSON.parse sees it:
\*   unparseable    JSON.parse throws
\*   null           the JSON text `null`: parses, then data.timestamp throws
\*   keep-alive     the JSON string "keep-alive-text"
\*   object         a JSON object; a field that is absent from the record is
\*                  absent from the object (reads as undefined)
ObjectPayloads ==
    {[kind |-> "object"]}
      \cup {[kind |-> "object", timestamp |-> t] : t \in Timestamps}
      \cup {[kind |-> "object", devices |-> <<>>]}
      \cup UNION {{[kind |-> "object", timestamp |-> t, devices |-> ds] :
                      ds \in DeviceLists(t)} : t \in Timestamps}

Payloads ==
    {[kind |-> "unparseable"], [kind |-> "null"], [kind |-> "keep-alive"]}
      \cup ObjectPayloads

\* Texts are sequences of characters.  What the viewer can have in the
\* question field: nothing, a blank, a question.
Texts == {<<>>, <<" ">>, <<"q">>}

\* chunk.choices[0]?.delta?.content || "" of a chunk: the chunk carries no
\* text (absent or empty content), or some text.
ChunkContents == {<<>>, <<"a">>}

\* selectionRange when nothing is selected.
NullRange == [is |-> "null"]

\* What Date.getTimezoneOffset() can return for the viewer, in minutes:
\* UTC+2, UTC and UTC-5.
TimezoneOffsets == {-120, 0, 300}

\* (clientX - rect.left) / rect.width * 100 of a pointer event; the pointer
\* can be left and right of the bar.  A 1000 pixel wide bar yields each of
\* these exactly.
Percentages == {-50, 0, 30, 35, 70, 100, 150}

RetryPending == "connection lost. retrying..."
NoError == "null"

VARIABLES
    mounted,         \* "constructed" | "mounted" | "unmounted"
    frames,          \* useState<StreamTimeSeriesResponse[]>([])
    currentFrame,    \* useState<DeviceFrameResponse | null>(null)
    currentIndex,    \* useState(0)
    isLoading,       \* useState(true)
    error,           \* useState<string | null>(null)
    loadedTimeRange, \* useState<{start, end} | null>(null): "null" | "window"
    eventSourceRef,  \* readyState of eventSourceRef.current, "null" when unset
    detached,        \* readyStates of live EventSources no ref points to
    lastOp,          \* history: the handler that ran last, with its event
    absorbed,        \* history: the catch block of onmessage ran on the
                     \* connection the ref holds
    isDragging,      \* useState(false)
    dragStart,       \* useState<number | null>(null): <<>> is null, <<p>> is p
    selectionRange,  \* useState<TimeRange | null>(null)
    timezoneOffset,  \* the viewer's Date.getTimezoneOffset(), in minutes
    chatMessages,    \* useState<Array<Message>>([])
    isAiLoading,     \* useState(false)
    isStreaming,     \* useState(false)
    abortControllerRef, \* abortControllerRef.current: 0 is null, i > 0 the
                     \* AbortController made by invocation i of handleAiSubmit
    isAiPanelExpanded, \* useState(false)
    aiInput,         \* useState("")
    requests,        \* the invocations of handleAiSubmit that passed the
                     \* guard, in order, each with its position and locals
    toasts,          \* number of toast() calls so far
    selectedAgent,   \* useState<Agent>(AGENTS[0]): the id of the agent
    keyDownFrames,   \* `frames` as the registered keydown listener sees it:
                     \* the listener is the closure of the render in which
                     \* its effect ran last (lines 284-303)
    keyDownAgent     \* `selectedAgent` as the keydown listener sees it

ingestVars == <<frames, currentFrame, currentIndex, isLoading, error,
                loadedTimeRange, eventSourceRef, detached, absorbed>>

selectionVars == <<isDragging, dragStart, selectionRange, timezoneOffset>>

queryVars == <<chatMessages, isAiLoading, isStreaming, abortControllerRef,
               isAiPanelExpanded, aiInput, requests, toasts>>

closureVars == <<selectedAgent, keyDownFrames, keyDownAgent>>

vars == <<mounted, lastOp, ingestVars, selectionVars, queryVars, closureVars>>

(***************************************************************************)
(* Pure helpers.                                                           *)
(***************************************************************************)
\* new Date(timestamp).getTime(): the millisecond instant; digits beyond the
\* millisecond are dropped.
getTime(t) == t[1]

\* JavaScript truthiness of a currentFrame value.
TruthyFrame(f) == f \notin {NullFrame, UndefinedFrame}

\* data.timestamp && data.devices: a non-empty string, and an array (an
\* empty array is truthy).
Has(data, field) == field \in DOMAIN data

\* devices[0]
FirstDevice(devices) == IF Len(devices) = 0 THEN UndefinedFrame ELSE devices[1]

\* prev.some((f) => f.timestamp === data.timestamp): string equality.
Exists(prev, t) == \E i \in DOMAIN prev : prev[i].timestamp = t

\* Array.prototype.sort with comparator (a, b) => getTime(b) - getTime(a):
\* a stable sort, so x goes behind every element that does not compare
\* after it.
RECURSIVE InsertStable(_, _)
InsertStable(sorted, x) ==
    IF sorted = <<>> THEN <<x>>
    ELSE IF getTime(x.timestamp) - getTime(Head(sorted).timestamp) > 0
         THEN <<x>> \o sorted
         ELSE <<Head(sorted)>> \o InsertStable(Tail(sorted), x)

RECURSIVE SortDescending(_)
SortDescending(arr) ==
    IF arr = <<>> THEN <<>>
    ELSE InsertStable(SortDescending(SubSeq(arr, 1, Len(arr) - 1)), arr[Len(arr)])

\* Mutant: the new batch is appended and the array is not sorted.
AddFrame_NoSort(prev, data) ==
    IF Exists(prev, data.timestamp) THEN prev
    ELSE Append(prev, [timestamp |-> data.timestamp, devices |-> data.devices])

\* Mutant: no `exists` test before the insertion.
AddFrame_NoDedupe(prev, data) ==
    SortDescending(Append(prev,
        [timestamp |-> data.timestamp, devices |-> data.devices]))

\* The setFrames updater of onmessage (lines 183-196).
AddFrame(prev, data) ==
    IF Exists(prev, data.timestamp) THEN prev
    ELSE SortDescending(Append(prev,
            [timestamp |-> data.timestamp, devices |-> data.devices]))

Max(a, b) == IF a > b THEN a ELSE b
Min(a, b) == IF a < b THEN a ELSE b

(***************************************************************************)
(* EventSource objects.  src is "ref" for the object eventSourceRef points *)
(* to, or the readyState of a detached live object.                        *)
(***************************************************************************)
Live == {"CONNECTING", "OPEN"}

Sources == (IF eventSourceRef = "null" THEN {} ELSE {"ref"}) \cup detached

ReadyState(src) == IF src = "ref" THEN eventSourceRef ELSE src

SetReadyState(src, s) ==
    IF src = "ref"
    THEN /\ eventSourceRef' = s
         /\ detached' = detached
    ELSE /\ eventSourceRef' = eventSourceRef
         /\ detached' = (detached \ {src}) \cup (IF s \in Live THEN {s} ELSE {})

(***************************************************************************)
(* setupEventSource (lines 156-224): closes the object the ref holds,      *)
(* records the requested window, constructs a new EventSource (readyState  *)
(* CONNECTING) and stores it in the ref.  The three handlers it installs   *)
(* are the actions OnOpen, OnMessage and TransportError below.             *)
(***************************************************************************)
\* Mutant: the object the ref holds is not closed before it is replaced.
CloseIfSet_None(rs) == rs

\* if (eventSourceRef.current) eventSourceRef.current.close()
CloseIfSet(rs) == IF rs # "null" THEN "CLOSED" ELSE rs

\* An object that is replaced in the ref while still live stays live.
Orphaned(rs) == IF rs \in Live THEN {rs} ELSE {}

setupEventSource ==
    /\ detached' = detached \cup Orphaned(CloseIfSet(eventSourceRef))
    /\ loadedTimeRange' = "window"
    /\ eventSourceRef' = "CONNECTING"
    /\ absorbed' = FALSE

(***************************************************************************)
(* Initial state: the useState / useRef initial values.                    *)
(***************************************************************************)
InitState ==
    /\ mounted = "constructed"
    /\ frames = <<>>
    /\ currentFrame = NullFrame
    /\ currentIndex = 0
    /\ isLoading = TRUE
    /\ error = NoError
    /\ loadedTimeRange = "null"
    /\ eventSourceRef = "null"
    /\ detached = {}
    /\ lastOp = [op |-> "init"]
    /\ absorbed = FALSE
    /\ isDragging = FALSE
    /\ dragStart = <<>>
    /\ selectionRange = NullRange
    /\ chatMessages = <<>>
    /\ isAiLoading = FALSE
    /\ isStreaming = FALSE
    /\ abortControllerRef = 0
    /\ isAiPanelExpanded = FALSE
    /\ aiInput = <<>>
    /\ requests = <<>>
    /\ toasts = 0
    /\ selectedAgent = "context-master"
    /\ keyDownFrames = <<>>
    /\ keyDownAgent = "context-master"

\* The stream handlers, the wheel and the refresh never read the time zone:
\* their specification fixes it.
Init ==
    /\ InitState
    /\ timezoneOffset = 0

(***************************************************************************)
(* Mount effect and its cleanup (lines 267-278).  retryTimeoutRef is never *)
(* assigned anywhere in the file, so clearTimeout is never reached.        *)
(***************************************************************************)
Mount ==
    /\ mounted = "constructed"
    /\ mounted' = "mounted"
    /\ setupEventSource
    /\ lastOp' = [op |-> "mount"]
    /\ UNCHANGED <<selectionVars, queryVars, closureVars>>
    /\ UNCHANGED <<frames, currentFrame, currentIndex, isLoading, error>>

Unmount ==
    /\ mounted = "mounted"
    /\ mounted' = "unmounted"
    /\ eventSourceRef' = CloseIfSet(eventSourceRef)
    /\ lastOp' = [op |-> "unmount"]
    /\ UNCHANGED <<selectionVars, queryVars, closureVars>>
    /\ UNCHANGED <<frames, currentFrame, currentIndex, isLoading, error,
                   loadedTimeRange, detached, absorbed>>

(***************************************************************************)
(* eventSource.onopen (lines 219-223).  The user agent announces the       *)
(* connection: readyState becomes OPEN and the open event fires.           *)
(* retryCount.current is only ever assigned 0, its initial value.          *)
(***************************************************************************)
OnOpen(src) ==
    /\ mounted = "mounted"
    /\ ReadyState(src) = "CONNECTING"
    /\ SetReadyState(src, "OPEN")
    /\ error' = NoError
    /\ lastOp' = [op |-> "onopen"]
    /\ UNCHANGED <<selectionVars, queryVars, closureVars>>
    /\ UNCHANGED <<mounted, frames, currentFrame, currentIndex, isLoading,
                   loadedTimeRange, absorbed>>

(***************************************************************************)
(* eventSource.onmessage (lines 177-204).                                  *)
(***************************************************************************)
\* JSON.parse(event.data) throws, or data.timestamp throws on null: the
\* catch block logs and returns.
Throws(data) == data.kind \in {"unparseable", "null"}

\* if (data === "keep-alive-text") return;
IsKeepAlive(data) == data.kind = "keep-alive"

\* if (data.timestamp && data.devices)
Accepted(data) == Has(data, "timestamp") /\ Has(data, "devices")

\* The body of the if runs.
Stores(data) == ~Throws(data) /\ ~IsKeepAlive(data) /\ Accepted(data)

\* setFrames((prev) => ...)
onmessageFrames(data, prev) ==
    IF Stores(data) THEN AddFrame(prev, data) ELSE prev

\* setCurrentFrame((prev) => prev || data.devices[0])
onmessageCurrentFrame(data, prev) ==
    IF Stores(data) /\ ~TruthyFrame(prev) THEN FirstDevice(data.devices)
    ELSE prev

\* Mutant: setIsLoading(false) hoisted above the keep-alive test.
onmessageIsLoading_BeforeChecks(data, prev) ==
    IF ~Throws(data) THEN FALSE ELSE prev

\* setIsLoading(false)
onmessageIsLoading(data, prev) ==
    IF Stores(data) THEN FALSE ELSE prev

\* Mutant: the catch block surfaces the failure.
onmessageError_Surfaced(data, prev) ==
    IF Throws(data) THEN RetryPending ELSE prev

\* catch (error) { console.error(...) }: nothing but the log.
onmessageError(data, prev) == prev

OnMessage(src, data) ==
    /\ mounted = "mounted"
    /\ ReadyState(src) = "OPEN"
    /\ frames' = onmessageFrames(data, frames)
    /\ currentFrame' = onmessageCurrentFrame(data, currentFrame)
    /\ isLoading' = onmessageIsLoading(data, isLoading)
    /\ error' = onmessageError(data, error)
    /\ absorbed' = (absorbed \/ (src = "ref" /\ Throws(data)))
    /\ lastOp' = [op |-> "onmessage", data |-> data, length |-> Len(frames)]
    /\ UNCHANGED <<selectionVars, queryVars, closureVars>>
    /\ UNCHANGED <<mounted, currentIndex, loadedTimeRange, eventSourceRef,
                   detached>>

(***************************************************************************)
(* eventSource.onerror (lines 206-217).  The user agent fires error after  *)
(* it set readyState: CLOSED when it failed the connection for good,       *)
(* CONNECTING when it lost the connection and is about to reestablish it.  *)
(***************************************************************************)
\* Mutant: a stream that ended is reopened by the handler.
onerrorReadyState_Retry(atEvent) ==
    IF atEvent = "CLOSED" THEN "CONNECTING" ELSE "CLOSED"

\* Mutant: eventSource.close() is missing, so the user agent reconnects.
onerrorReadyState_NoClose(atEvent) == atEvent

\* The readyState the handler leaves the object in: eventSource.close()
\* unless the stream ended.
onerrorReadyState(atEvent) ==
    IF atEvent = "CLOSED" THEN atEvent ELSE "CLOSED"

\* setError("connection lost. retrying...") unless the stream ended.
onerrorError(atEvent, prev) ==
    IF atEvent = "CLOSED" THEN prev ELSE RetryPending

\* setIsLoading(false) only when the stream ended.
onerrorIsLoading(atEvent, prev) ==
    IF atEvent = "CLOSED" THEN FALSE ELSE prev

TransportError(src, atEvent) ==
    /\ mounted = "mounted"
    /\ ReadyState(src) \in Live
    /\ SetReadyState(src, onerrorReadyState(atEvent))
    /\ error' = onerrorError(atEvent, error)
    /\ isLoading' = onerrorIsLoading(atEvent, isLoading)
    /\ lastOp' = [op |-> "onerror", readyState |-> atEvent]
    /\ UNCHANGED <<selectionVars, queryVars, closureVars>>
    /\ UNCHANGED <<mounted, frames, currentFrame, currentIndex,
                   loadedTimeRange, absorbed>>

(***************************************************************************)
(* handleScroll (lines 305-329), for a wheel event outside the AI panel.   *)
(* sign is Math.sign(e.deltaY).                                            *)
(***************************************************************************)
\* delta = -Math.sign(deltaY) / 1; delta > 0 ? Math.ceil(delta) : Math.floor(delta)
ScrollStep(sign) == -sign

NewIndex(index, length, sign) ==
    Min(Max(0, index + ScrollStep(sign)), length - 1)

HandleScroll(sign) ==
    /\ mounted = "mounted"
    /\ lastOp' = [op |-> "scroll", sign |-> sign]
    /\ UNCHANGED <<selectionVars, queryVars, closureVars>>
    /\ LET newIndex == NewIndex(currentIndex, Len(frames), sign) IN
       IF newIndex # currentIndex
       THEN /\ currentIndex' = newIndex
            \* frames[newIndex] is undefined when newIndex is -1: reading
            \* .devices throws after setCurrentIndex was queued.
            /\ currentFrame' = IF newIndex + 1 \in DOMAIN frames
                               THEN FirstDevice(frames[newIndex + 1].devices)
                               ELSE currentFrame
       ELSE UNCHANGED <<currentIndex, currentFrame>>
    /\ UNCHANGED <<mounted, frames, isLoading, error, loadedTimeRange,
                   eventSourceRef, detached, absorbed>>

(***************************************************************************)
(* handleRefresh (lines 625-631).                                          *)
(***************************************************************************)
HandleRefresh ==
    /\ mounted = "mounted"
    /\ frames' = <<>>
    /\ currentFrame' = NullFrame
    /\ currentIndex' = 0
    /\ isLoading' = TRUE
    /\ setupEventSource
    /\ lastOp' = [op |-> "refresh", replaced |-> eventSourceRef]
    /\ UNCHANGED <<selectionVars, queryVars, closureVars>>
    /\ UNCHANGED <<mounted, error>>

(***************************************************************************)
(* The keydown effect (lines 284-303) has the dependencies selectionRange, *)
(* isAiPanelExpanded and aiInput.  When a handler changed one of them the  *)
(* effect runs again after the render and registers a listener that sees   *)
(* the state of that render; otherwise the listener registered before      *)
(* stays, with the frames and the agent of its own render.  No handler     *)
(* changes a dependency together with frames or selectedAgent.             *)
(***************************************************************************)
KeyDownRebound ==
    /\ keyDownFrames' = frames
    /\ keyDownAgent' = selectedAgent
    /\ selectedAgent' = selectedAgent

KeyDownKept == UNCHANGED closureVars

(***************************************************************************)
(* The time axis (lines 348-449).                                          *)
(*                                                                         *)
(* A Date is modelled by its number of minutes since 00:00 UTC of the      *)
(* calendar day that is "today" on the viewer's clock; seconds and         *)
(* milliseconds are always set to 0 by the handlers.  The viewer's local   *)
(* midnight of today is the Date timezoneOffset.                           *)
(***************************************************************************)
\* Mutant: the pointer position is not clamped.
Clamp_None(percentage) == percentage

\* Math.max(0, Math.min(100, percentage))
Clamp(percentage) == Max(0, Min(100, percentage))

\* const totalMinutesInDay = 24 * 60
TotalMinutesInDay == 24 * 60

\* The integer percents p of 0..100 for which the IEEE-754 double
\* (p / 100) * 1440 is NOT the real number 14.4 * p rounded to nearest but
\* the double just below an integer: 0.35 * 1440 = 503.99999999999994 and
\* 0.7 * 1440 = 1007.9999999999999, because the doubles 0.35 and 0.7 are
\* below the reals 0.35 and 0.7.  For every other integer percent the floor
\* of the double and of the real product agree.
RoundsBelow == {35, 70}

\* (clampedPercentage / 100) * totalMinutesInDay as a double: hundredths is
\* the real product in hundredths of a minute, below tells that the double
\* lies just under it.
MinutesFromMidnight(percentage) ==
    [hundredths |-> percentage * TotalMinutesInDay,
     below |-> percentage \in RoundsBelow]

\* Math.floor(minutesFromMidnight / 60)
Hours(m) ==
    IF m.below /\ m.hundredths % 6000 = 0
    THEN (m.hundredths \div 6000) - 1
    ELSE m.hundredths \div 6000

\* Math.floor(minutesFromMidnight % 60)
Minutes(m) ==
    LET r == m.hundredths % 6000 IN
    IF m.below /\ r % 100 = 0
    THEN (IF r = 0 THEN 59 ELSE (r \div 100) - 1)
    ELSE r \div 100

\* new Date() followed by setHours(hours, minutes, 0, 0): the local fields of
\* today are overwritten; hours = 24 rolls over to the next day.
SetHours(hours, minutes) == timezoneOffset + hours * 60 + minutes

\* Date.prototype.getUTCFullYear/getUTCMonth/getUTCDate: the UTC calendar
\* day, counted from today.
getUTCDate(date) == date \div 1440
getUTCHours(date) == (date % 1440) \div 60
getUTCMinutes(date) == date % 60

\* Date.prototype.getDate/getHours/getMinutes: the fields of the local clock.
getDate(date) == (date - timezoneOffset) \div 1440
getHours(date) == ((date - timezoneOffset) % 1440) \div 60
getMinutes(date) == (date - timezoneOffset) % 60

\* Date.UTC(year, month, day, hours, minutes, 0, 0)
DateUTC(day, hours, minutes) == day * 1440 + hours * 60 + minutes

\* Mutant: the local fields are handed to Date.UTC.
ToUtcDate_LocalFields(localDate) ==
    DateUTC(getDate(localDate), getHours(localDate), getMinutes(localDate))

\* new Date(Date.UTC(d.getUTCFullYear(), d.getUTCMonth(), d.getUTCDate(),
\*                   d.getUTCHours(), d.getUTCMinutes(), 0, 0))
ToUtcDate(localDate) ==
    DateUTC(getUTCDate(localDate), getUTCHours(localDate),
            getUTCMinutes(localDate))

\* The boundary a handler computes for a clamped percent.
Boundary(clampedPercentage) ==
    LET minutesFromMidnight == MinutesFromMidnight(clampedPercentage) IN
    ToUtcDate(SetHours(Hours(minutesFromMidnight),
                       Minutes(minutesFromMidnight)))

(***************************************************************************)
(* handleTimelineMouseDown (lines 348-383).                                *)
(***************************************************************************)
HandleTimelineMouseDown(percentage) ==
    /\ mounted = "mounted"
    /\ LET clampedPercentage == Clamp(percentage) IN
       /\ isDragging' = TRUE
       /\ dragStart' = <<clampedPercentage>>
       /\ selectionRange' = [start |-> Boundary(clampedPercentage),
                             end |-> Boundary(clampedPercentage)]
    /\ lastOp' = [op |-> "mousedown", percentage |-> percentage]
    /\ KeyDownRebound
    /\ UNCHANGED <<mounted, ingestVars, timezoneOffset, queryVars>>

(***************************************************************************)
(* handleTimelineMouseMove (lines 385-445).                                *)
(***************************************************************************)
\* Mutant: the handler tests only whether an anchor was ever set.
MoveIgnored_AnchorOnly == dragStart = <<>>

\* if (!isDragging || dragStart === null) return;
MoveIgnored == ~isDragging \/ dragStart = <<>>

\* dragging records whether the handler got past its first line.
HandleTimelineMouseMove(percentage) ==
    /\ mounted = "mounted"
    /\ IF MoveIgnored
       THEN selectionRange' = selectionRange
       ELSE LET clampedPercentage == Clamp(percentage) IN
            selectionRange' =
                [start |-> Boundary(Min(dragStart[1], clampedPercentage)),
                 end |-> Boundary(Max(dragStart[1], clampedPercentage))]
    /\ lastOp' = [op |-> "mousemove", percentage |-> percentage,
                  dragging |-> ~MoveIgnored]
    /\ IF MoveIgnored THEN KeyDownKept ELSE KeyDownRebound
    /\ UNCHANGED <<mounted, ingestVars, isDragging, dragStart,
                   timezoneOffset, queryVars>>

(***************************************************************************)
(* handleTimelineMouseUp (lines 447-449), bound to mouseup and mouseleave  *)
(* (lines 705-708).  While nothing is dragged setIsDragging(false) changes *)
(* nothing.                                                                *)
(***************************************************************************)
HandleTimelineMouseUp ==
    /\ mounted = "mounted"
    /\ isDragging
    /\ isDragging' = FALSE
    /\ lastOp' = [op |-> "mouseup", after |-> lastOp]
    /\ KeyDownKept
    /\ UNCHANGED <<mounted, ingestVars, dragStart, selectionRange,
                   timezoneOffset, queryVars>>

(***************************************************************************)
(* The AI panel (lines 755-896) and the keyboard shortcuts (285-299).      *)
(***************************************************************************)
\* String.prototype.trim on the modelled texts.
RECURSIVE TrimStart(_)
TrimStart(text) ==
    IF text # <<>> /\ Head(text) = " " THEN TrimStart(Tail(text)) ELSE text

RECURSIVE TrimEnd(_)
TrimEnd(text) ==
    IF text # <<>> /\ text[Len(text)] = " "
    THEN TrimEnd(SubSeq(text, 1, Len(text) - 1))
    ELSE text

\* Mutant: the question is not trimmed before it is tested.
Trim_None(text) == text

Trim(text) == TrimEnd(TrimStart(text))

\* The panel is rendered only while a selection exists (line 755), the
\* form only while the panel is expanded (line 819).
PanelRendered == selectionRange # NullRange
FormRendered == PanelRendered /\ isAiPanelExpanded

\* Mutant: the question field stays enabled while a query runs.
InputDisabled_Never == FALSE

\* <Input disabled={isAiLoading}> and <Button type="submit"
\* disabled={isAiLoading}> (lines 852 and 856).
InputDisabled == isAiLoading

\* The invocations of handleAiSubmit whose request is awaited or streamed.
InFlight == {i \in DOMAIN requests : requests[i].pc \in {"awaiting", "streaming"}}

UserMessage(content) == [role |-> "user", content |-> content]
AssistantMessage(content) == [role |-> "assistant", content |-> content]

(***************************************************************************)
(* handleAskAI (lines 451-463), reached by Ctrl/Cmd+K while a selection    *)
(* exists (lines 286-291).  Without a selection the key does nothing.      *)
(***************************************************************************)
HandleAskAI ==
    /\ mounted = "mounted"
    /\ selectionRange # NullRange
    /\ chatMessages' = <<>>
    /\ isAiPanelExpanded' = ~isAiPanelExpanded
    /\ aiInput' = (IF isAiPanelExpanded THEN <<>> ELSE aiInput)
    /\ lastOp' = [op |-> "askai"]
    /\ KeyDownRebound
    /\ UNCHANGED <<mounted, ingestVars, selectionVars, isAiLoading,
                   isStreaming, abortControllerRef, requests, toasts>>

(***************************************************************************)
(* The "ask ai" button of the collapsed panel (lines 802-815).             *)
(***************************************************************************)
ExpandPanel ==
    /\ mounted = "mounted"
    /\ PanelRendered
    /\ ~isAiPanelExpanded
    /\ isAiPanelExpanded' = TRUE
    /\ lastOp' = [op |-> "expand"]
    /\ KeyDownRebound
    /\ UNCHANGED <<mounted, ingestVars, selectionVars, chatMessages,
                   isAiLoading, isStreaming, abortControllerRef, aiInput,
                   requests, toasts>>

(***************************************************************************)
(* The dismiss button of the panel (lines 787-797).                        *)
(***************************************************************************)
Dismiss ==
    /\ mounted = "mounted"
    /\ PanelRendered
    /\ selectionRange' = NullRange
    /\ isAiPanelExpanded' = FALSE
    /\ chatMessages' = <<>>
    /\ aiInput' = <<>>
    /\ lastOp' = [op |-> "dismiss"]
    /\ KeyDownRebound
    /\ UNCHANGED <<mounted, ingestVars, isDragging, dragStart,
                   timezoneOffset, isAiLoading, isStreaming,
                   abortControllerRef, requests, toasts>>

(***************************************************************************)
(* onChange of the question field (line 850).                              *)
(***************************************************************************)
ChangeInput(text) ==
    /\ mounted = "mounted"
    /\ FormRendered
    /\ ~InputDisabled
    /\ aiInput' = text
    /\ lastOp' = [op |-> "input"]
    /\ IF text = aiInput THEN KeyDownKept ELSE KeyDownRebound
    /\ UNCHANGED <<mounted, ingestVars, selectionVars, chatMessages,
                   isAiLoading, isStreaming, abortControllerRef,
                   isAiPanelExpanded, requests, toasts>>

(***************************************************************************)
(* The agents and their data selectors (lines 62-112).                     *)
(***************************************************************************)
Agents == {"context-master", "window-tracker", "text-scanner", "voice-analyzer"}

\* device.metadata.ocr_text and device.audio, which the frame records leave
\* out: the screen of d1 shows no text and d1 recorded nothing, d2 shows
\* text and recorded one clip.
ocr_text(device) == IF device.device_id = "d1" THEN <<>> ELSE <<"t">>
audio(device) == IF device.device_id = "d1" THEN <<>> ELSE <<"clip">>

\* frame.devices.map((device) => device.metadata.ocr_text).filter(Boolean)
RECURSIVE OcrTexts(_)
OcrTexts(devices) ==
    IF devices = <<>> THEN <<>>
    ELSE (IF ocr_text(Head(devices)) = <<>> THEN <<>>
          ELSE <<ocr_text(Head(devices))>>) \o OcrTexts(Tail(devices))

\* frame.devices.flatMap((device) => device.audio)
RECURSIVE Audio(_)
Audio(devices) ==
    IF devices = <<>> THEN <<>>
    ELSE audio(Head(devices)) \o Audio(Tail(devices))

\* frame.devices.map(...) of the window tracker: app_name and window_name
\* are left out of the frame records, the device stands for them.
RECURSIVE Windows(_)
Windows(devices) ==
    IF devices = <<>> THEN <<>>
    ELSE <<[app |-> Head(devices).device_id,
            window |-> Head(devices).device_id]>> \o Windows(Tail(devices))

\* frame.devices.map(...) of the context master: the device without its
\* image.
RECURSIVE Devices(_)
Devices(devices) ==
    IF devices = <<>> THEN <<>>
    ELSE <<[device_id |-> Head(devices).device_id,
            metadata |-> [ocr_text |-> ocr_text(Head(devices)),
                          timestamp |-> Head(devices).timestamp],
            audio |-> audio(Head(devices))]>> \o Devices(Tail(devices))

\* The entry a selector makes of one batch.
Entry(agent, frame) ==
    CASE agent = "context-master" ->
            [timestamp |-> frame.timestamp, devices |-> Devices(frame.devices)]
      [] agent = "window-tracker" ->
            [timestamp |-> frame.timestamp, windows |-> Windows(frame.devices)]
      [] agent = "text-scanner" ->
            [timestamp |-> frame.timestamp, text |-> OcrTexts(frame.devices)]
      [] agent = "voice-analyzer" ->
            [timestamp |-> frame.timestamp, audio |-> Audio(frame.devices)]

\* selectedAgent.dataSelector(relevantFrames): frames.map(...)
RECURSIVE dataSelector(_, _)
dataSelector(agent, relevantFrames) ==
    IF relevantFrames = <<>> THEN <<>>
    ELSE <<Entry(agent, Head(relevantFrames))>>
            \o dataSelector(agent, Tail(relevantFrames))

\* Date.prototype.valueOf of a selection boundary: milliseconds.
valueOf(date) == date * 60000

\* frameTime >= selectionRange.start && frameTime <= selectionRange.end
\* (lines 469-474): both sides are compared as milliseconds.
InRange(timestamp, range) ==
    /\ getTime(timestamp) >= valueOf(range.start)
    /\ getTime(timestamp) <= valueOf(range.end)

\* frames.filter(...)
RECURSIVE RelevantFrames(_, _)
RelevantFrames(seen, range) ==
    IF seen = <<>> THEN <<>>
    ELSE (IF InRange(Head(seen).timestamp, range) THEN <<Head(seen)>>
          ELSE <<>>) \o RelevantFrames(Tail(seen), range)

\* onChange of the agent <select> (lines 854-857); it is not disabled while
\* a query runs.
SelectAgent(agent) ==
    /\ mounted = "mounted"
    /\ FormRendered
    /\ selectedAgent' = agent
    /\ lastOp' = [op |-> "agent"]
    /\ UNCHANGED <<mounted, ingestVars, selectionVars, queryVars,
                   keyDownFrames, keyDownAgent>>

(***************************************************************************)
(* handleAiSubmit (lines 465-563) up to its first await.  via tells how    *)
(* it was reached: "form" is the handler of the current render, "key" the  *)
(* one the keydown listener holds.  The request keeps the context data;    *)
(* the ids of the messages (generateId), the system prompt and the         *)
(* earlier messages sent along are not modelled.                           *)
(***************************************************************************)
\* `frames` and `selectedAgent` in the scope of the handler that runs.
SeenFrames(via) == IF via = "key" THEN keyDownFrames ELSE frames
SeenAgent(via) == IF via = "key" THEN keyDownAgent ELSE selectedAgent

handleAiSubmit(via) ==
    /\ lastOp' = [op |-> "submit", via |-> via,
                  accepted |-> ~(Trim(aiInput) = <<>>
                                 \/ selectionRange = NullRange)]
    /\ IF Trim(aiInput) = <<>> \/ selectionRange = NullRange
       THEN /\ UNCHANGED queryVars
            /\ KeyDownKept
       ELSE /\ Len(requests) < MaxRequests
            /\ chatMessages' = Append(chatMessages, UserMessage(aiInput))
            /\ aiInput' = <<>>
            /\ isAiLoading' = TRUE
            /\ abortControllerRef' = Len(requests) + 1
            /\ isStreaming' = TRUE
            \* openai.chat.completions.create(...) is called and awaited
            /\ requests' = Append(requests,
                  [pc |-> "awaiting",
                   context |-> dataSelector(SeenAgent(via),
                                  RelevantFrames(SeenFrames(via),
                                                 selectionRange)),
                   fullResponse |-> <<>>,
                   received |-> <<>>])
            /\ KeyDownRebound
            /\ UNCHANGED <<isAiPanelExpanded, toasts>>
    /\ UNCHANGED <<mounted, ingestVars, selectionVars>>

\* The form's submit event (line 844): Enter in the question field or a
\* click on the submit button, both impossible while they are disabled.
SubmitForm ==
    /\ mounted = "mounted"
    /\ FormRendered
    /\ ~InputDisabled
    /\ handleAiSubmit("form")

\* handleKeyDown for Ctrl/Cmd+Enter (lines 293-298).
KeyDownEnter ==
    /\ mounted = "mounted"
    /\ IF isAiPanelExpanded /\ Trim(aiInput) # <<>>
       THEN handleAiSubmit("key")
       ELSE /\ lastOp' = [op |-> "keydown"]
            /\ UNCHANGED <<mounted, ingestVars, selectionVars, queryVars,
                           closureVars>>

(***************************************************************************)
(* The submit button shows a stop icon while isStreaming (lines 854-889),  *)
(* and it is disabled while isAiLoading: a click on it runs no handler.    *)
(* abortControllerRef.current.abort() is called nowhere in the file.  at   *)
(* records where the requests in flight stand when it is clicked.          *)
(***************************************************************************)
ClickStop ==
    /\ mounted = "mounted"
    /\ FormRendered
    /\ isStreaming
    /\ IF InputDisabled
       THEN /\ lastOp' = [op |-> "stop",
                         at |-> {requests[i].pc : i \in InFlight}]
            /\ UNCHANGED <<mounted, ingestVars, selectionVars, queryVars,
                           closureVars>>
       ELSE handleAiSubmit("form")

(***************************************************************************)
(* The rest of handleAiSubmit, one action per resumption of invocation i.  *)
(***************************************************************************)
\* Mutant: every chunk appends a message of its own.
ChunkMessages_Append(prev, fullResponse) ==
    Append(prev, AssistantMessage(fullResponse))

\* Mutant: the message holds the text of the last chunk only.
ChunkMessages_LastChunk(prev, fullResponse) ==
    SubSeq(prev, 1, Len(prev) - 1)
        \o <<AssistantMessage(IF fullResponse = <<>> THEN <<>>
                              ELSE <<fullResponse[Len(fullResponse)]>>)>>

\* (prev) => [...prev.slice(0, -1), {role: "assistant", content: fullResponse}]
ChunkMessages(prev, fullResponse) ==
    SubSeq(prev, 1, Len(prev) - 1) \o <<AssistantMessage(fullResponse)>>

\* Mutant: the catch block surfaces nothing.
catchToasts_None(count) == count

\* toast({title: "Error", ...}) in the catch block (lines 554-558)
catchToasts(count) == count + 1

\* Mutant: the busy flag is left as it is.
finallyIsAiLoading_Kept(flag) == flag

\* finally { setIsAiLoading(false); setIsStreaming(false) } (lines 559-562)
finallyIsAiLoading(flag) == FALSE
finallyIsStreaming(flag) == FALSE

\* An invocation that returned: its locals are gone.
Returned(how) ==
    [pc |-> how, context |-> <<>>, fullResponse |-> <<>>, received |-> <<>>]

\* The awaited create() resolves with the stream (lines 528-542).
StreamOpens(i) ==
    /\ mounted = "mounted"
    /\ requests[i].pc = "awaiting"
    /\ requests' = [requests EXCEPT ![i].pc = "streaming",
                                    ![i].fullResponse = <<>>]
    /\ chatMessages' = Append(chatMessages, AssistantMessage(<<>>))
    /\ lastOp' = [op |-> "open", request |-> i]
    /\ KeyDownKept
    /\ UNCHANGED <<mounted, ingestVars, selectionVars, isAiLoading,
                   isStreaming, abortControllerRef, isAiPanelExpanded,
                   aiInput, toasts>>

\* One iteration of for await (const chunk of stream) (lines 544-551).
StreamChunk(i, content) ==
    /\ mounted = "mounted"
    /\ requests[i].pc = "streaming"
    /\ Len(requests[i].received) < MaxChunks
    /\ requests' = [requests EXCEPT
                       ![i].fullResponse = requests[i].fullResponse \o content,
                       ![i].received = Append(requests[i].received, content)]
    /\ chatMessages' = ChunkMessages(chatMessages,
                                     requests[i].fullResponse \o content)
    /\ lastOp' = [op |-> "chunk", request |-> i]
    /\ KeyDownKept
    /\ UNCHANGED <<mounted, ingestVars, selectionVars, isAiLoading,
                   isStreaming, abortControllerRef, isAiPanelExpanded,
                   aiInput, toasts>>

\* The stream is exhausted: the loop ends and finally runs.
StreamEnds(i) ==
    /\ mounted = "mounted"
    /\ requests[i].pc = "streaming"
    /\ requests' = [requests EXCEPT ![i] = Returned("done")]
    /\ isAiLoading' = finallyIsAiLoading(isAiLoading)
    /\ isStreaming' = finallyIsStreaming(isStreaming)
    /\ lastOp' = [op |-> "end", request |-> i]
    /\ KeyDownKept
    /\ UNCHANGED <<mounted, ingestVars, selectionVars, chatMessages,
                   abortControllerRef, isAiPanelExpanded, aiInput, toasts>>

\* create() rejects, or the stream throws: catch and finally run
\* (lines 552-562).
RequestFails(i) ==
    /\ mounted = "mounted"
    /\ requests[i].pc \in {"awaiting", "streaming"}
    /\ requests' = [requests EXCEPT ![i] = Returned("failed")]
    /\ toasts' = catchToasts(toasts)
    /\ isAiLoading' = finallyIsAiLoading(isAiLoading)
    /\ isStreaming' = finallyIsStreaming(isStreaming)
    /\ lastOp' = [op |-> "fail", request |-> i, at |-> requests[i].pc]
    /\ KeyDownKept
    /\ UNCHANGED <<mounted, ingestVars, selectionVars, chatMessages,
                   abortControllerRef, isAiPanelExpanded, aiInput>>

(***************************************************************************)
(* Specification.                                                          *)
(***************************************************************************)
Next ==
    \/ Mount
    \/ Unmount
    \/ \E src \in Sources : OnOpen(src)
    \/ \E src \in Sources, data \in Payloads : OnMessage(src, data)
    \/ \E src \in Sources, atEvent \in {"CONNECTING", "CLOSED"} :
          TransportError(src, atEvent)
    \/ \E sign \in {-1, 0, 1} : HandleScroll(sign)
    \/ HandleRefresh

Spec == Init /\ [][Next]_vars

\* The time axis on its own, in every time zone of TimezoneOffsets.
InitSelection ==
    /\ InitState
    /\ timezoneOffset \in TimezoneOffsets

NextSelection ==
    \/ Mount
    \/ \E percentage \in Percentages : HandleTimelineMouseDown(percentage)
    \/ \E percentage \in Percentages : HandleTimelineMouseMove(percentage)
    \/ HandleTimelineMouseUp
    \/ Dismiss

SpecSelection == InitSelection /\ [][NextSelection]_vars

\* The AI panel over one selection made by a click on the bar.
ClickPercentages == {30}

NextQuery ==
    \/ Mount
    \/ \E percentage \in ClickPercentages : HandleTimelineMouseDown(percentage)
    \/ HandleTimelineMouseUp
    \/ HandleAskAI
    \/ ExpandPanel
    \/ Dismiss
    \/ \E text \in Texts : ChangeInput(text)
    \/ SubmitForm
    \/ KeyDownEnter
    \/ ClickStop
    \/ \E i \in DOMAIN requests : StreamOpens(i)
    \/ \E i \in DOMAIN requests, content \in ChunkContents :
          StreamChunk(i, content)
    \/ \E i \in DOMAIN requests : StreamEnds(i)
    \/ \E i \in DOMAIN requests : RequestFails(i)

SpecQuery == Init /\ [][NextQuery]_vars

\* What the completion service does to a request: the stream opens,
\* delivers a chunk, ends or fails.
RequestStep ==
    \E i \in DOMAIN requests :
        \/ StreamOpens(i)
        \/ \E content \in ChunkContents : StreamChunk(i, content)
        \/ StreamEnds(i)
        \/ RequestFails(i)

\* Batches in and around the range a click at 30% selects for a viewer at
\* UTC (07:12:00.000 to 07:12:00.000): one stamped with that very
\* millisecond, one stamped a millisecond earlier.
ContextPayloads ==
    {[kind |-> "object", timestamp |-> <<25920000, 0>>,
      devices |-> <<DeviceFrame("d2", <<25920000, 0>>),
                    DeviceFrame("d1", <<25920000, 0>>)>>],
     [kind |-> "object", timestamp |-> <<25919999, 0>>,
      devices |-> <<DeviceFrame("d1", <<25919999, 0>>)>>]}

\* The agents the viewer switches between: the default one and the text-only
\* one.
ContextAgents == {"context-master", "text-scanner"}

\* The AI panel while batches arrive.
NextContext ==
    \/ Mount
    \/ \E src \in Sources : OnOpen(src)
    \/ \E src \in Sources, data \in ContextPayloads : OnMessage(src, data)
    \/ HandleRefresh
    \/ HandleTimelineMouseDown(30)
    \/ ExpandPanel
    \/ ChangeInput(<<"q">>)
    \/ \E agent \in ContextAgents : SelectAgent(agent)
    \/ SubmitForm
    \/ KeyDownEnter
    \/ \E i \in DOMAIN requests : StreamOpens(i)
    \/ \E i \in DOMAIN requests : StreamChunk(i, <<"a">>)
    \/ \E i \in DOMAIN requests : StreamEnds(i)

SpecContext == Init /\ [][NextContext]_vars

\* A request that is awaited or streamed does not stall for ever.
SpecQueryFair == SpecQuery /\ WF_vars(RequestStep)

(***************************************************************************)
(* Properties.                                                             *)
(***************************************************************************)
\* Some EventSource is CONNECTING or OPEN.
HasLive == eventSourceRef \in Live \/ detached # {}

\* The last handler was onmessage and it inserted its batch.
Inserted ==
    /\ lastOp.op = "onmessage"
    /\ Len(frames) = lastOp.length + 1

C2_DuplicateIgnored ==
    /\ [][ (/\ lastOp'.op = "onmessage"
            /\ lastOp'.data.kind = "object"
            /\ Has(lastOp'.data, "timestamp")
            /\ Exists(frames, lastOp'.data.timestamp))
           => frames' = frames ]_vars
    /\ [](\A i, j \in DOMAIN frames :
            i # j => frames[i].timestamp # frames[j].timestamp)

\* A batch arrived whose timestamp was stored with other devices: the
\* stored batch is the earlier one.
C2_Witness ==
    /\ lastOp.op = "onmessage"
    /\ Stores(lastOp.data)
    /\ Len(frames) = lastOp.length
    /\ \E i \in DOMAIN frames :
          /\ frames[i].timestamp = lastOp.data.timestamp
          /\ frames[i].devices # lastOp.data.devices

\* C3: a payload with no timestamp, no devices list or an empty devices
\* list is dropped: the store, the displayed frame and the loading flag
\* keep their values.
C3_InvalidPayloadDropped ==
    [][ (/\ lastOp'.op = "onmessage"
         /\ lastOp'.data.kind = "object"
         /\ \/ ~Has(lastOp'.data, "timestamp")
            \/ ~Has(lastOp'.data, "devices")
            \/ lastOp'.data.devices = <<>>)
        => UNCHANGED <<frames, currentFrame, isLoading>> ]_vars

\* C4: a keep-alive event changes nothing of the store, the playback
\* cursor, the displayed frame, the loading flag and the error flag.
C4_KeepAliveNoOp ==
    [][ (lastOp'.op = "onmessage" /\ lastOp'.data.kind = "keep-alive")
        => UNCHANGED <<frames, currentIndex, currentFrame, isLoading, error>>
      ]_vars

\* A keep-alive arrived after a batch, while the stream stays open for the
\* next one.
C4_Witness ==
    /\ lastOp.op = "onmessage"
    /\ lastOp.data.kind = "keep-alive"
    /\ Len(frames) = 1
    /\ eventSourceRef = "OPEN"

\* C5: an event whose payload cannot be parsed changes no state: the error
\* flag, the connection and the store are as before, so the batches that
\* follow it on the connection are inserted.
C5_MalformedAbsorbed ==
    [][ (lastOp'.op = "onmessage" /\ lastOp'.data.kind \in {"unparseable", "null"})
        => UNCHANGED <<frames, currentIndex, currentFrame, isLoading, error,
                       eventSourceRef, detached>> ]_vars

\* A batch was inserted on a connection that absorbed a malformed event
\* before.
C5_Witness ==
    /\ absorbed
    /\ Inserted
    /\ error = NoError

\* C6: when the transport reports the closed terminal condition, loading
\* becomes false, the error flag and the store keep their values, the
\* connection stays closed, and only a manual refresh opens another.
C6_CleanEnd ==
    [][ /\ (lastOp'.op = "onerror" /\ lastOp'.readyState = "CLOSED")
           => /\ isLoading' = FALSE
              /\ error' = error
              /\ frames' = frames
              /\ eventSourceRef' = "CLOSED"
        /\ (eventSourceRef = "CLOSED" /\ eventSourceRef' # "CLOSED")
           => lastOp'.op = "refresh" ]_vars

\* The stream ended and nothing is shown as loading or failed.
C6_Witness ==
    /\ lastOp.op = "onerror"
    /\ lastOp.readyState = "CLOSED"
    /\ ~isLoading
    /\ error = NoError
    /\ eventSourceRef = "CLOSED"

\* C7: a transport failure other than a clean end sets the retry-pending
\* message and closes the connection; while no connection is live, only
\* the session start and a manual refresh open one.
C7_NoAutomaticReconnect ==
    [][ /\ (lastOp'.op = "onerror" /\ lastOp'.readyState # "CLOSED")
           => (error' = RetryPending /\ ~HasLive')
        /\ (~HasLive /\ HasLive')
           => lastOp'.op \in {"mount", "refresh"} ]_vars

\* The connection dropped after batches were received.
C7_Witness ==
    /\ lastOp.op = "onerror"
    /\ lastOp.readyState = "CONNECTING"
    /\ error = RetryPending
    /\ eventSourceRef = "CLOSED"
    /\ frames # <<>>

\* C8: after the stream connection dropped abnormally, loading is false.
C8_FailureClearsLoading ==
    (lastOp.op = "onerror" /\ lastOp.readyState # "CLOSED") => ~isLoading

\* C9: right after a manual refresh the store is empty, the cursor and the
\* displayed frame are reset, the error flag is cleared, loading is true
\* and a new connection is being opened.
C9_RefreshResets ==
    lastOp.op = "refresh"
        => /\ frames = <<>>
           /\ currentIndex = 0
           /\ currentFrame = NullFrame
           /\ error = NoError
           /\ isLoading
           /\ eventSourceRef = "CONNECTING"

\* C10: whenever the store is non-empty, the playback cursor is an index
\* of it.
C10_CursorInRange ==
    frames # <<>> => currentIndex \in 0..(Len(frames) - 1)



\* Minutes between the viewer's local midnight of today and a boundary: the
\* place of the boundary on the axis, 0 at 0% and 1440 at 100%.
AxisMinute(date) == date - timezoneOffset

\* C11: whenever a selection exists its start is not after its end and both
\* boundaries lie on the axis (percents 0..100, minutes 0..1440), however far
\* outside the bar the pointer was; a pointer-down directly followed by a
\* pointer-up leaves start equal to end.
C11_SelectionOrderedOnAxis ==
    selectionRange # NullRange =>
        /\ selectionRange.start <= selectionRange.end
        /\ AxisMinute(selectionRange.start) \in 0..TotalMinutesInDay
        /\ AxisMinute(selectionRange.end) \in 0..TotalMinutesInDay
        /\ (lastOp.op = "mouseup" /\ lastOp.after.op = "mousedown")
              => selectionRange.start = selectionRange.end

\* A drag anchored right of the bar and moved left of it spans the whole axis.
C11_Witness ==
    /\ lastOp.op = "mouseup"
    /\ lastOp.after.op = "mousemove"
    /\ lastOp.after.percentage = -50
    /\ dragStart = <<100>>
    /\ AxisMinute(selectionRange.start) = 0
    /\ AxisMinute(selectionRange.end) = TotalMinutesInDay

\* The percent of the last pointer-move of a drag, clamped.
LastMove == Clamp(IF lastOp.op = "mouseup" THEN lastOp.after.percentage
                  ELSE lastOp.percentage)

\* C12: after a pointer-move with anchor percent a and (clamped) percent c,
\* and after the pointer-up that commits it, the selection starts at minute
\* floor(min(a, c) / 100 * 1440) and ends at minute
\* floor(max(a, c) / 100 * 1440) of the day, whichever direction was dragged.
C12_SelectionFromAnchorAndLastMove ==
    (\/ lastOp.op = "mousemove" /\ lastOp.dragging
     \/ lastOp.op = "mouseup" /\ lastOp.after.op = "mousemove") =>
        /\ AxisMinute(selectionRange.start)
              = (Min(dragStart[1], LastMove) * TotalMinutesInDay) \div 100
        /\ AxisMinute(selectionRange.end)
              = (Max(dragStart[1], LastMove) * TotalMinutesInDay) \div 100

\* The hour and minute picked on the axis by the pointer-down that ran last.
PickedMinutes == MinutesFromMidnight(Clamp(lastOp.percentage))

\* C13 as claimed: the boundary is the UTC instant whose UTC hour and minute
\* are the local hour and minute picked on the axis, in every time zone.
C13_LocalFieldsReinterpreted ==
    lastOp.op = "mousedown" =>
        /\ getUTCHours(selectionRange.start) = Hours(PickedMinutes) % 24
        /\ getUTCMinutes(selectionRange.start) = Minutes(PickedMinutes)

\* C13, amended: the boundary is the instant at which the viewer's clock
\* reads the hour and minute picked on the axis, so its UTC fields are the
\* picked ones shifted by the time zone offset.
C13_InstantOfLocalWallClock ==
    lastOp.op = "mousedown" =>
        /\ getHours(selectionRange.start) = Hours(PickedMinutes) % 24
        /\ getMinutes(selectionRange.start) = Minutes(PickedMinutes)
        /\ getUTCHours(selectionRange.start) * 60
              + getUTCMinutes(selectionRange.start)
           = (Hours(PickedMinutes) * 60 + Minutes(PickedMinutes)
                 + timezoneOffset) % 1440

\* 07:12 picked at 30% by a viewer in UTC-5 is the instant 12:12 UTC.
C13_Witness ==
    /\ lastOp.op = "mousedown"
    /\ lastOp.percentage = 30
    /\ timezoneOffset = 300
    /\ getUTCHours(selectionRange.start) = 12
    /\ getUTCMinutes(selectionRange.start) = 12

\* C14: a dismiss, also one pressed while a query is awaited or streamed,
\* clears the selection, empties the Conversation and stops the query: right
\* after it no request is in flight, and no later step of the dismissed
\* query writes into the emptied Conversation.
C14_DismissStopsQuery ==
    [][/\ lastOp'.op = "dismiss" =>
              /\ selectionRange' = NullRange
              /\ chatMessages' = <<>>
              /\ InFlight' = {}
       /\ (lastOp'.op \in {"open", "chunk"} /\ chatMessages = <<>>)
              => chatMessages' = <<>>]_vars

\* A text with nothing but blanks in it.
IsBlank(text) == \A k \in DOMAIN text : text[k] = " "

\* C15: a submission whose question is empty after trimming, or made with no
\* selection, changes nothing: Conversation, question field, busy and
\* streaming flags stay as they are, no request is opened, nothing is
\* notified.
C15_RejectedSubmissionNoEffect ==
    [][(lastOp'.op = "submit"
          /\ (IsBlank(aiInput) \/ selectionRange = NullRange))
       => UNCHANGED <<chatMessages, aiInput, isAiLoading, isStreaming,
                      abortControllerRef, requests, toasts>>]_vars

\* The form was submitted with a blank in the question field.
C15_Witness ==
    /\ lastOp = [op |-> "submit", via |-> "form", accepted |-> FALSE]
    /\ selectionRange # NullRange
    /\ aiInput = <<" ">>
    /\ requests = <<>>

\* The texts of a sequence of chunks, joined.
RECURSIVE Flatten(_)
Flatten(chunks) ==
    IF chunks = <<>> THEN <<>> ELSE Head(chunks) \o Flatten(Tail(chunks))

\* Number of assistant messages after the last user message.
RECURSIVE AssistantsAtEnd(_)
AssistantsAtEnd(messages) ==
    IF messages = <<>> \/ messages[Len(messages)].role = "user"
    THEN 0
    ELSE 1 + AssistantsAtEnd(SubSeq(messages, 1, Len(messages) - 1))

\* C16: after every chunk of a streamed answer the Conversation has at most
\* one assistant message after the last user message, that message is the
\* last one and holds the texts of all chunks received so far, joined, and
\* it is at least as long as the assistant message that ended the
\* Conversation before the chunk.
C16_StreamedAnswerAccumulates ==
    [][lastOp'.op = "chunk" =>
          /\ AssistantsAtEnd(chatMessages') = 1
          /\ chatMessages'[Len(chatMessages')]
                = AssistantMessage(Flatten(requests'[lastOp'.request].received))
          /\ (chatMessages # <<>>
                /\ chatMessages[Len(chatMessages)].role = "assistant")
             => Len(chatMessages'[Len(chatMessages')].content)
                   >= Len(chatMessages[Len(chatMessages)].content)]_vars

\* The second chunk of an answer arrived, the first had text too.
C16_Witness ==
    /\ lastOp = [op |-> "chunk", request |-> 1]
    /\ requests[1].received = <<<<"a">>, <<"a">>>>
    /\ chatMessages = <<UserMessage(<<"q">>), AssistantMessage(<<"a", "a">>)>>

C18_StopAbortsQuery ==
    (lastOp.op = "stop" /\ "streaming" \in lastOp.at) =>
        /\ InFlight = {}
        /\ ~isAiLoading
        /\ ~isStreaming
        /\ chatMessages # <<>>
        /\ chatMessages[Len(chatMessages)].role = "assistant"

\* C19: a request that fails, awaited or streamed, surfaces one
\* notification, leaves the Conversation as it is and opens no request;
\* nothing else notifies.
C19_FailureNotifiedOnce ==
    [][/\ lastOp'.op = "fail" =>
              /\ toasts' = toasts + 1
              /\ chatMessages' = chatMessages
              /\ Len(requests') = Len(requests)
              /\ InFlight' = InFlight \ {lastOp'.request}
       /\ toasts' # toasts => lastOp'.op = "fail"]_vars

\* The stream broke after the first chunk: its text is still there.
C19_Witness ==
    /\ lastOp = [op |-> "fail", request |-> 1, at |-> "streaming"]
    /\ toasts = 1
    /\ chatMessages = <<UserMessage(<<"q">>), AssistantMessage(<<"a">>)>>
    /\ InFlight = {}

\* C20: an accepted submission sets the busy flag; the flags are not set
\* while no request is in flight; and, the stream not stalling for ever, set
\* flags lead to both flags being false.
C20_BusyEventuallyClears ==
    /\ []((lastOp.op = "submit" /\ lastOp.accepted) => isAiLoading)
    /\ [](InFlight = {} => (~isAiLoading /\ ~isStreaming))
    /\ (isAiLoading \/ isStreaming) ~> (~isAiLoading /\ ~isStreaming)

\* The stream of an accepted submission ended and the flags are cleared.
C20_Witness ==
    /\ lastOp = [op |-> "end", request |-> 1]
    /\ requests[1].pc = "done"
    /\ ~isAiLoading
    /\ ~isStreaming

\* C21: while nothing is dragged (the drag ended by pointer-up or by the
\* pointer leaving the axis, or none began) a pointer-move leaves the
\* selection as it is, and a step that changes the selection is a
\* pointer-down, which sets both boundaries to the anchor, or a dismiss,
\* which clears it.
C21_SelectionFrozenAfterDrag ==
    [][~isDragging =>
          /\ lastOp'.op = "mousemove" => selectionRange' = selectionRange
          /\ selectionRange' # selectionRange =>
                \/ /\ lastOp'.op = "mousedown"
                   /\ selectionRange'.start = selectionRange'.end
                \/ /\ lastOp'.op = "dismiss"
                   /\ selectionRange' = NullRange]_vars

\* After a drag from 30% to 70% was released the pointer moved on to 0%.
C21_Witness ==
    /\ lastOp = [op |-> "mousemove", percentage |-> 0, dragging |-> FALSE]
    /\ ~isDragging
    /\ dragStart = <<30>>
    /\ AxisMinute(selectionRange.start) = 432
    /\ AxisMinute(selectionRange.end) = 1007

\* The timestamps of the entries of a payload or of a sequence of batches.
Stamps(entries) == [k \in DOMAIN entries |-> entries[k].timestamp]

\* The stored batches stamped within the selection, bounds included, in
\* store order.
StoredInSelection ==
    SelectSeq(frames,
              LAMBDA frame : /\ frame.timestamp[1] >= selectionRange.start * 60000
                             /\ frame.timestamp[1] <= selectionRange.end * 60000)

\* C22: an accepted submission computes the context payload from the store
\* as it is when the question is submitted (its entries are those of the
\* stored batches within the selection), no step changes the payload of a
\* query that stays in flight, and the steps of a query (stream opened,
\* delta, stream ended, failure) leave the store as it is.
C22_PayloadFromStoreAtSubmission ==
    [][/\ (lastOp'.op = "submit" /\ lastOp'.accepted) =>
             Stamps(requests'[Len(requests')].context)
                = Stamps(StoredInSelection)
       /\ \A i \in InFlight :
             requests'[i].pc \in {"awaiting", "streaming"} =>
                requests'[i].context = requests[i].context
       /\ lastOp'.op \in {"open", "chunk", "end", "fail"} =>
             frames' = frames]_vars


\* The EventSource objects that are connecting or open.
LiveConnections ==
    (IF eventSourceRef \in Live THEN 1 ELSE 0) + Cardinality(detached)

\* C23: at most one ingestion connection is connecting or open at any time;
\* the session start and a refresh leave no earlier connection live beside
\* the one they open; and a message that is handled comes from the open
\* connection the session holds, the only live one, so no event of a
\* replaced connection reaches the store a refresh rebuilt.
C23_SingleLiveConnection ==
    [][/\ LiveConnections' <= 1
       /\ lastOp'.op \in {"mount", "refresh"} =>
             /\ eventSourceRef' = "CONNECTING"
             /\ detached' = {}
       /\ lastOp'.op = "onmessage" =>
             /\ eventSourceRef = "OPEN"
             /\ detached = {}]_vars

\* A refresh replaced a connection that was open: it is closed and the new
\* one is the only live one.
C23_Witness ==
    /\ lastOp = [op |-> "refresh", replaced |-> "OPEN"]
    /\ eventSourceRef = "CONNECTING"
    /\ detached = {}
    /\ frames = <<>>


\* A payload has one entry per stored batch within the selection, in store
\* order and with the timestamp of its batch, and when the text-only agent
\* is selected an entry is a timestamp and texts none of which is empty.
ExactPayload(payload) ==
    /\ Len(payload) = Len(StoredInSelection)
    /\ \A k \in DOMAIN payload :
          payload[k].timestamp = StoredInSelection[k].timestamp
    /\ selectedAgent = "text-scanner" =>
          \A k \in DOMAIN payload :
             /\ DOMAIN payload[k] = {"timestamp", "text"}
             /\ \A j \in DOMAIN payload[k].text : payload[k].text[j] # <<>>

\* C24: the context payload an accepted submission builds has exactly one
\* entry for each stored batch whose timestamp lies within the selection,
\* both bounds included, and none for another batch, in store order, each
\* with the timestamp of its batch; for the text-only agent no entry holds
\* an empty text.
C24_PayloadIsStoredBatchesInSelection ==
    [][(lastOp'.op = "submit" /\ lastOp'.accepted) =>
          ExactPayload(requests'[Len(requests')].context)]_vars


\* C25: whenever a frame is displayed, it is the first device frame of the
\* stored batch the playback cursor points at, also after batches with newer
\* or older timestamps were inserted around that batch.  Stated for the
\* stores whose batches all have a device frame and for a cursor within the
\* store.
C25_DisplayedFrameAtCursor ==
    (/\ TruthyFrame(currentFrame)
     /\ \A k \in DOMAIN frames : frames[k].devices # <<>>
     /\ currentIndex + 1 \in DOMAIN frames)
        => currentFrame = FirstDevice(frames[currentIndex + 1].devices)


\* C26: the Conversation is empty or starts with a user message, and every
\* assistant message in it comes right after a user message, whatever the
\* order of submissions, stream events, dismissals and ask-AI resets.
C26_ConversationAlternates ==
    /\ chatMessages # <<>> => chatMessages[1].role = "user"
    /\ \A k \in DOMAIN chatMessages :
          chatMessages[k].role = "assistant" =>
             /\ k > 1
             /\ chatMessages[k - 1].role = "user"


=============================================================================
